---- MODULE Spec2Model ----
(***************************************************************************)
(* Model of src/app.py: the Call CRM page.  One script run of the page is  *)
(* one action; the state is st.session_state.call_records, the cache of    *)
(* load_google_sheets_data, the clock, and what the last run computed and  *)
(* reported (the import loop's imported_count, its messages).              *)
(*                                                                         *)
(* Numbers that are floats in the program (cost) are integers counting     *)
(* hundredths, so 12.5 is 1250.  A string that float() may be applied to   *)
(* is a sequence of one-character strings, so that float() is computed     *)
(* from its characters; every other string is a TLA+ string.               *)
(***************************************************************************)
EXTENDS Integers, Sequences, FiniteSets, TLC

\* Runs that draw a new input are explored while the collection stays within
\* MaxRecords records (see Fits).
MaxRecords == 2
\* Largest reading of the clock.
MaxTime == 2
\* Longest record list of an uploaded JSON document drawn as input.
MaxBatch == 2

VARIABLES
    call_records,    \* st.session_state.call_records
    sheets_cache,    \* st.cache_data entry of load_google_sheets_data
    now,             \* last reading of datetime.now()
    op,              \* which widget triggered the last script run
    messages,        \* st.error / st.success / exception shown by the last run
    imported_count   \* local of the JSON import loop in the last run

vars == <<call_records, sheets_cache, now, op, messages, imported_count>>

-----------------------------------------------------------------------------
(* Values *)

\* An optional string-valued key of a JSON object.
NoKey == [has |-> FALSE, s |-> ""]
Key(s) == [has |-> TRUE, s |-> s]

\* The value under "cost" of a JSON object.
NoCost == [t |-> "absent", n |-> 0, s |-> <<>>]
NumCost(n) == [t |-> "num", n |-> n, s |-> <<>>]
StrCost(chars) == [t |-> "str", n |-> 0, s |-> chars]

\* Elements of a JSON record list: an object with some of the keys, or a
\* value that is no object.
NoStamp == [has |-> FALSE, t |-> 0]

Object(transcript, cost, call_id) ==
    [map |-> TRUE, transcript |-> transcript, recording_url |-> NoKey,
     call_summary |-> NoKey, cost |-> cost, customer_number |-> NoKey,
     started_at |-> NoKey, ended_at |-> NoKey, call_id |-> call_id,
     added_at |-> NoStamp, source |-> NoKey]

NotAnObject == [Object(NoKey, NoCost, NoKey) EXCEPT !.map = FALSE]

\* dict.get(key, default) on a JSON object, for a string-valued key.
Get(field, default) == IF field.has THEN field.s ELSE default

-----------------------------------------------------------------------------
(* float(): Python's conversion of a number or of a string to a float *)

IsDigit(c) == c \in {"0", "1", "2", "3", "4", "5", "6", "7", "8", "9"}

DigitVal(c) ==
    CASE c = "0" -> 0 [] c = "1" -> 1 [] c = "2" -> 2 [] c = "3" -> 3
      [] c = "4" -> 4 [] c = "5" -> 5 [] c = "6" -> 6 [] c = "7" -> 7
      [] c = "8" -> 8 [] c = "9" -> 9

RECURSIVE DigitsVal(_)
DigitsVal(ds) ==
    IF ds = <<>> THEN 0
    ELSE 10 * DigitsVal(SubSeq(ds, 1, Len(ds) - 1)) + DigitVal(ds[Len(ds)])

\* The decimal literals float() accepts: [sign] digits [. digits], with a
\* digit on at least one side of the point.  Result in hundredths; digits
\* after the second decimal are dropped by the unit of the model.  Exponents,
\* blanks, "inf" and "nan" are not among the characters drawn as input.
ParseFloat(chars) ==
    LET signed == chars # <<>> /\ chars[1] \in {"-", "+"}
        body == IF signed THEN Tail(chars) ELSE chars
        dots == {i \in 1..Len(body) : body[i] = "."}
        dot == IF dots = {} THEN Len(body) + 1 ELSE CHOOSE i \in dots : TRUE
        whole == SubSeq(body, 1, dot - 1)
        frac == SubSeq(body, dot + 1, Len(body))
        frac2 == SubSeq(frac \o <<"0", "0">>, 1, 2)
        ok == /\ Cardinality(dots) <= 1
              /\ Len(whole) + Len(frac) > 0
              /\ \A i \in 1..Len(whole) : IsDigit(whole[i])
              /\ \A i \in 1..Len(frac) : IsDigit(frac[i])
        mag == 100 * DigitsVal(whole) + DigitsVal(frac2)
    IN  IF ~ok THEN [ok |-> FALSE, v |-> 0]
        ELSE [ok |-> TRUE, v |-> IF signed /\ chars[1] = "-" THEN 0 - mag ELSE mag]

\* float(x) for a JSON value or a spreadsheet cell: a number is itself, a
\* string is parsed (ValueError when it is no literal).
Float(x) ==
    CASE x.t = "num" -> [ok |-> TRUE, v |-> x.n]
      [] x.t = "str" -> ParseFloat(x.s)
      [] OTHER -> [ok |-> FALSE, v |-> 0]

\* f"{n:04d}"
Pad4(n) ==
    IF n < 10 THEN "000" \o ToString(n)
    ELSE IF n < 100 THEN "00" \o ToString(n)
    ELSE IF n < 1000 THEN "0" \o ToString(n)
    ELSE ToString(n)

-----------------------------------------------------------------------------
(* Records of the collection *)

CallRecord(transcript, recording_url, call_summary, cost, customer_number, started_at, ended_at, call_id, added_at, source) ==
    [transcript |-> transcript, recording_url |-> recording_url,
     call_summary |-> call_summary, cost |-> cost,
     customer_number |-> customer_number, started_at |-> started_at,
     ended_at |-> ended_at, call_id |-> call_id, added_at |-> added_at,
     source |-> source]

\* The readings datetime.now() gives to n successive calls: the clock never
\* goes back.
Stamps(n, from) ==
    {ts \in [1..n -> from..MaxTime] : \A i \in 1..(n - 1) : ts[i] <= ts[i + 1]}

-----------------------------------------------------------------------------
(* Manual entry form *)

\* call_id of the submitted form: the text typed, or "ID" and the size of the
\* collection plus one.
ManualCallId(call_id, records) ==
    IF call_id # "" THEN call_id ELSE "ID" \o Pad4(Len(records) + 1)

\* One script run with the form's "Add Call" pressed.
AddCall(f, t) ==
    /\ call_records' = Append(call_records,
           CallRecord(f.transcript, f.recording_url, f.call_summary, f.cost,
                      f.customer_number, f.started_at, f.ended_at,
                      ManualCallId(f.call_id, call_records), t, "manual"))
    /\ now' = t
    /\ op' = "add_call"
    /\ messages' = {"Call record added!"}
    /\ imported_count' = 0
    /\ UNCHANGED sheets_cache

-----------------------------------------------------------------------------
(* JSON upload *)

\* RecordsToAdd with the last branch reporting the document and still
\* passing one record of defaults to the loop.
RecordsToAddReportedAndKept(json_data) ==
    IF json_data.type = "list"
    THEN [invalid |-> FALSE, iterable |-> TRUE, items |-> json_data.items]
    ELSE IF json_data.type = "dict" /\ json_data.has_records
    THEN [invalid |-> FALSE, iterable |-> json_data.records_is_list,
          items |-> json_data.items]
    ELSE IF json_data.type = "dict"
    THEN [invalid |-> FALSE, iterable |-> TRUE, items |-> json_data.items]
    ELSE [invalid |-> TRUE, iterable |-> TRUE,
          items |-> <<Object(NoKey, NoCost, NoKey)>>]

\* The list the import loop iterates: the document itself when it is a list,
\* the value under "records" when it is a dict with that key, the dict itself
\* as the only record otherwise; any other document is reported and gives [].
\* The value under "records" is used as it is: when it is no list (a number
\* here) the loop cannot iterate it.
RecordsToAdd(json_data) ==
    IF json_data.type = "list"
    THEN [invalid |-> FALSE, iterable |-> TRUE, items |-> json_data.items]
    ELSE IF json_data.type = "dict" /\ json_data.has_records
    THEN [invalid |-> FALSE, iterable |-> json_data.records_is_list,
          items |-> json_data.items]
    ELSE IF json_data.type = "dict"
    THEN [invalid |-> FALSE, iterable |-> TRUE, items |-> json_data.items]
    ELSE [invalid |-> TRUE, iterable |-> TRUE, items |-> <<>>]

\* JsonCallId with the record's own call_id ignored.
JsonCallIdAlwaysGenerated(record, records, count) ==
    "JSON" \o Pad4(Len(records) + count + 1)

\* call_id of a JSON record: the record's own, or "JSON" and the current size
\* of the collection plus imported_count plus one.
JsonCallId(record, records, count) ==
    Get(record.call_id, "JSON" \o Pad4(Len(records) + count + 1))

\* Whether building formatted_record raises: record.get on an element that is
\* no dict (AttributeError), or float() on a cost that is no number
\* (ValueError, TypeError).
FormatRaises(record) ==
    \/ ~record.map
    \/ record.cost.t # "absent" /\ ~Float(record.cost).ok

JsonCost(record) ==
    IF record.cost.t = "absent" THEN 0 ELSE Float(record.cost).v

FormattedRecord(record, records, count, t) ==
    CallRecord(Get(record.transcript, ""), Get(record.recording_url, ""),
               Get(record.call_summary, ""), JsonCost(record),
               Get(record.customer_number, ""), Get(record.started_at, ""),
               Get(record.ended_at, ""), JsonCallId(record, records, count),
               t, "json_upload")

\* The loop "for record in records_to_add": each record is appended as soon
\* as it is formatted; an exception ends the loop where it is raised.
RECURSIVE ImportLoop(_, _, _, _)
ImportLoop(records, items, stamps, count) ==
    IF count = Len(items)
    THEN [records |-> records, imported_count |-> count, raised |-> FALSE]
    ELSE IF FormatRaises(items[count + 1])
    THEN [records |-> records, imported_count |-> count, raised |-> TRUE]
    ELSE ImportLoop(
             Append(records,
                    FormattedRecord(items[count + 1], records, count,
                                    stamps[count + 1])),
             items, stamps, count + 1)

FormatMessage(rta) == IF rta.invalid THEN {"Invalid JSON format"} ELSE {}

\* How many records the loop formats, each with one reading of the clock,
\* before it ends.
RECURSIVE Formatted(_)
Formatted(items) ==
    IF items = <<>> \/ FormatRaises(Head(items)) THEN 0
    ELSE 1 + Formatted(Tail(items))

\* One script run with a file in the uploader, the run's other buttons not
\* pressed.  pressed is "Import JSON Records"; the button exists only when the
\* file parsed.
JsonUpload(uploaded_file, pressed) ==
    LET rta == RecordsToAdd(uploaded_file) IN
    /\ pressed => uploaded_file.syntax_ok
    /\ UNCHANGED sheets_cache
    /\ IF ~uploaded_file.syntax_ok
       THEN /\ op' = "upload_json"
            /\ messages' = {"Invalid JSON file format"}
            /\ imported_count' = 0
            /\ UNCHANGED <<call_records, now>>
       ELSE IF ~pressed
       THEN /\ op' = "upload_json"
            /\ messages' = FormatMessage(rta)
            /\ imported_count' = 0
            /\ UNCHANGED <<call_records, now>>
       ELSE IF ~rta.iterable
       THEN /\ op' = "import_json"
            /\ messages' = {"Error processing JSON file"}
            /\ imported_count' = 0
            /\ UNCHANGED <<call_records, now>>
       ELSE \E stamps \in Stamps(Formatted(rta.items), now) :
            LET res == ImportLoop(call_records, rta.items, stamps, 0) IN
            /\ op' = "import_json"
            /\ messages' = FormatMessage(rta) \cup
                   (IF res.raised THEN {"Error processing JSON file"}
                    ELSE {"Imported records from JSON!"})
            /\ imported_count' = res.imported_count
            /\ call_records' = res.records
            /\ now' = IF res.imported_count = 0 THEN now
                      ELSE stamps[res.imported_count]

-----------------------------------------------------------------------------
(* Google Sheets *)

\* Cells of a DataFrame row: a text, a number or NaN (an empty cell).  The
\* text of a cell of a cost column is a sequence of characters.
Text(s) == [t |-> "str", n |-> 0, s |-> s]
NaN == [t |-> "nan", n |-> 0, s |-> ""]
CostText(chars) == [t |-> "str", n |-> 0, s |-> chars]
CostNum(n) == [t |-> "num", n |-> n, s |-> <<>>]
CostNaN == [t |-> "nan", n |-> 0, s |-> <<>>]
CostNone == [t |-> "none", n |-> 0, s |-> <<>>]

\* row.get(column, default): the cell when the sheet has the column.
RowGet(row, column, default) ==
    IF column \in DOMAIN row THEN row[column] ELSE default

\* str(cell)
Str(cell) == IF cell.t = "nan" THEN "nan" ELSE cell.s

\* pd.notna(cell)
NotNa(cell) == cell.t \notin {"nan", "none"}

\* The "cost" entry of a converted row: float() of the cost cell, else of the
\* call_cost cell, when that cell is not NaN; 0.0 when it is NaN or when the
\* sheet has neither column.  float() raises on a text that is no number.
SheetCost(row) ==
    LET probe == RowGet(row, "cost", RowGet(row, "call_cost", CostNone))
        value == RowGet(row, "cost", RowGet(row, "call_cost", CostNum(0)))
    IN  IF NotNa(probe) THEN Float(value) ELSE [ok |-> TRUE, v |-> 0]

SheetCallId(row, records) ==
    Str(RowGet(row, "call_id", Text("SHEET" \o Pad4(Len(records) + 1))))

SheetRecord(row, records, t) ==
    CallRecord(Str(RowGet(row, "transcript", RowGet(row, "call_summary", Text("")))),
               Str(RowGet(row, "recording_url", Text(""))),
               Str(RowGet(row, "call_summary", Text(""))),
               SheetCost(row).v,
               Str(RowGet(row, "customer_number", RowGet(row, "phone number", Text("")))),
               Str(RowGet(row, "started_at", RowGet(row, "call_start_time", Text("")))),
               Str(RowGet(row, "ended_at", RowGet(row, "call_end_time", Text("")))),
               SheetCallId(row, records), t, "google_sheets")

\* convert_sheets_to_records: the rows in order into a local list; an
\* exception of float() leaves the function without a result.
RECURSIVE ConvertSheetsToRecords(_, _, _)
ConvertSheetsToRecords(rows, stamps, records) ==
    IF Len(records) = Len(rows)
    THEN [raised |-> FALSE, records |-> records]
    ELSE IF ~SheetCost(rows[Len(records) + 1]).ok
    THEN [raised |-> TRUE, records |-> <<>>]
    ELSE ConvertSheetsToRecords(rows, stamps,
             Append(records, SheetRecord(rows[Len(records) + 1], records,
                                         stamps[Len(records) + 1])))

\* load_google_sheets_data returns None when the request or the CSV parse
\* fails, the DataFrame otherwise.
None == [ok |-> FALSE, rows |-> <<>>]
DataFrame(rows) == [ok |-> TRUE, rows |-> rows]

NoCache == [cached |-> FALSE, value |-> None]

\* load_google_sheets_data under st.cache_data: within the ttl a call returns
\* what the first call returned, None included.
LoadGoogleSheetsData(cache, response) ==
    IF cache.cached THEN cache.value ELSE response

\* One script run with "Load from Google Sheets" pressed.
LoadFromSheets(response) ==
    LET sheets_df == LoadGoogleSheetsData(sheets_cache, response) IN
    /\ sheets_cache' = [cached |-> TRUE, value |-> sheets_df]
    /\ op' = "load_sheets"
    /\ imported_count' = 0
    /\ IF ~sheets_df.ok
       THEN /\ messages' = {"Error loading Google Sheets data"}
            /\ UNCHANGED <<call_records, now>>
       ELSE \E stamps \in Stamps(Len(sheets_df.rows), now) :
            LET sheets_records == ConvertSheetsToRecords(sheets_df.rows, stamps, <<>>) IN
            IF sheets_records.raised
            THEN /\ messages' = {"Uncaught exception"}
                 /\ UNCHANGED <<call_records, now>>
            ELSE /\ messages' = {"Loaded records from Google Sheets!"}
                 /\ call_records' = call_records \o sheets_records.records
                 /\ now' = IF sheets_records.records = <<>> THEN now
                           ELSE stamps[Len(sheets_records.records)]

\* The ttl of the cache entry runs out.
CacheExpire ==
    /\ sheets_cache.cached
    /\ sheets_cache' = NoCache
    /\ UNCHANGED <<call_records, now, op, messages, imported_count>>

-----------------------------------------------------------------------------
(* Clear All Records: the button is drawn only while there are records *)

\* ClearAll dropping the last record only.
ClearLast ==
    /\ call_records # <<>>
    /\ call_records' = SubSeq(call_records, 1, Len(call_records) - 1)
    /\ op' = "clear_all"
    /\ messages' = {"All records cleared!"}
    /\ imported_count' = 0
    /\ UNCHANGED <<sheets_cache, now>>

ClearAll ==
    /\ call_records # <<>>
    /\ call_records' = <<>>
    /\ op' = "clear_all"
    /\ messages' = {"All records cleared!"}
    /\ imported_count' = 0
    /\ UNCHANGED <<sheets_cache, now>>

-----------------------------------------------------------------------------
(* Inputs *)

\* What the form submits; the number input admits no cost below 0.0.
Forms ==
    [transcript : {"hi"}, recording_url : {"https://a/1.wav"},
     call_summary : {""}, cost : {250}, customer_number : {"+1555"},
     started_at : {""}, ended_at : {""}, call_id : {"", "A1"}]

\* The JSON record lists drawn as input.
Objects ==
    { Object(Key("hello"), NoCost, NoKey),
      Object(NoKey, StrCost(<<"1", "2", ".", "5", "0">>), Key("A1")),
      Object(NoKey, StrCost(<<"a", "b", "c">>), NoKey),
      [Object(Key("full"), NumCost(-500), Key("A2")) EXCEPT
          !.recording_url = Key("https://a/2.wav"), !.call_summary = Key("sum"),
          !.customer_number = Key("+1556"), !.started_at = Key("2024-01-01T00:00:00Z"),
          !.ended_at = Key("2024-01-01T00:05:00Z")] }

Elements == Objects \cup {NotAnObject}

Lists == UNION {[1..k -> Elements] : k \in 0..MaxBatch}

\* Uploaded files: text that is no JSON, a list, a dict with or without
\* "records" (under it a list or a number), a number or string.
InvalidFile ==
    [syntax_ok |-> FALSE, type |-> "none", has_records |-> FALSE,
     records_is_list |-> FALSE, items |-> <<>>]
ListDoc(items) ==
    [syntax_ok |-> TRUE, type |-> "list", has_records |-> FALSE,
     records_is_list |-> FALSE, items |-> items]
RecordsDoc(items) ==
    [syntax_ok |-> TRUE, type |-> "dict", has_records |-> TRUE,
     records_is_list |-> TRUE, items |-> items]
RecordsNumberDoc ==
    [syntax_ok |-> TRUE, type |-> "dict", has_records |-> TRUE,
     records_is_list |-> FALSE, items |-> <<>>]
ObjectDoc(object) ==
    [syntax_ok |-> TRUE, type |-> "dict", has_records |-> FALSE,
     records_is_list |-> FALSE, items |-> <<object>>]
ScalarDoc ==
    [syntax_ok |-> TRUE, type |-> "scalar", has_records |-> FALSE,
     records_is_list |-> FALSE, items |-> <<>>]

\* The canonical JSON array of a collection: one object per record, every
\* field under its own name.
ExportRecord(r) ==
    [map |-> TRUE, transcript |-> Key(r.transcript),
     recording_url |-> Key(r.recording_url), call_summary |-> Key(r.call_summary),
     cost |-> NumCost(r.cost), customer_number |-> Key(r.customer_number),
     started_at |-> Key(r.started_at), ended_at |-> Key(r.ended_at),
     call_id |-> Key(r.call_id), added_at |-> [has |-> TRUE, t |-> r.added_at],
     source |-> Key(r.source)]

Export(records) == ListDoc([i \in 1..Len(records) |-> ExportRecord(records[i])])

Files ==
    {InvalidFile, ScalarDoc, RecordsNumberDoc}
        \cup {ListDoc(items) : items \in Lists}
        \cup {RecordsDoc(items) : items \in Lists}
        \cup {ObjectDoc(object) : object \in Objects}

\* What the request for the sheet's CSV gives: a failure, or a sheet.
Sheets ==
    { <<("phone number" :> Text("+15550100")) @@ ("call_cost" :> CostText(<<"9", ".", "9", "9">>))>>,
      <<[cost |-> CostNum(-300), call_cost |-> CostNum(700), call_id |-> Text("S1"),
         transcript |-> Text("t")],
        [cost |-> CostNaN, call_cost |-> CostNum(700), call_id |-> NaN,
         transcript |-> NaN]>>,
      <<[cost |-> CostText(<<"1", ".", "5">>)], [cost |-> CostText(<<"a", "b", "c">>)]>>,
      <<[call_summary |-> Text("sum")]>> }

Responses == {None} \cup {DataFrame(rows) : rows \in Sheets}

-----------------------------------------------------------------------------
(* The page *)

Init ==
    /\ call_records = <<>>
    /\ sheets_cache = NoCache
    /\ now = 1
    /\ op = "start"
    /\ messages = {}
    /\ imported_count = 0

\* The bound of the exploration: a run that draws its input from the sets
\* above is taken from a collection with room for one more record, when what
\* it may append fits in MaxRecords; the export of the collection itself is
\* re-imported from every collection within MaxRecords.
Fits(n) ==
    /\ Len(call_records) < MaxRecords
    /\ Len(call_records) + n <= MaxRecords

Next ==
    \/ \E f \in Forms, t \in now..MaxTime : Fits(1) /\ AddCall(f, t)
    \/ \E uploaded_file \in Files, pressed \in BOOLEAN :
           Fits(Len(uploaded_file.items)) /\ JsonUpload(uploaded_file, pressed)
    \/ Len(call_records) <= MaxRecords /\ JsonUpload(Export(call_records), TRUE)
    \/ \E response \in Responses :
           /\ Fits(Len(LoadGoogleSheetsData(sheets_cache, response).rows))
           /\ LoadFromSheets(response)
    \/ CacheExpire
    \/ ClearAll

Spec == Init /\ [][Next]_vars

-----------------------------------------------------------------------------
(* Properties *)

IsPrefix(s, t) == Len(s) <= Len(t) /\ SubSeq(t, 1, Len(s)) = s

\* The records the step has put behind the previous collection.
Appended == SubSeq(call_records', Len(call_records) + 1, Len(call_records'))

\* Two records agree on every field outside except.
SameExcept(a, b, except) ==
    \A field \in (DOMAIN a) \ except : a[field] = b[field]

ErrorReported == "Error processing JSON file" \in messages

\* A run ended in a batch-level error: FormatError (a document of
\* unrecognized shape), ParseError (a file that is no JSON), FetchError (the
\* sheet could not be retrieved).
BatchError ==
    \/ "Invalid JSON format" \in messages
    \/ "Invalid JSON file format" \in messages
    \/ "Error loading Google Sheets data" \in messages

\* C1: an import appends the number of records its document's shape fixes:
\* N for a list or for {"records": [...]} of N entries, one for a bare
\* object, none (with the format error reported) for a number or string.
C1_ImportCountByShape ==
    [][\A f \in Files :
          (f.syntax_ok /\ JsonUpload(f, TRUE)) =>
              /\ (f.type = "list" \/ (f.type = "dict" /\ f.has_records /\ f.records_is_list))
                     => Len(Appended) = Len(f.items) /\ IsPrefix(call_records, call_records')
              /\ (f.type = "dict" /\ ~f.has_records)
                     => Len(Appended) = 1 /\ IsPrefix(call_records, call_records')
              /\ f.type = "scalar"
                     => "Invalid JSON format" \in messages' /\ call_records' = call_records
      ]_vars

\* C2: a run that ends in a batch-level error leaves the collection as it was.
C2_BatchErrorKeepsCollection ==
    [][BatchError' => call_records' = call_records]_vars

C2_Witness ==
    /\ op = "import_json"
    /\ "Invalid JSON format" \in messages
    /\ call_records # <<>>

\* C3: in an import of N objects every object is inserted, one whose cost is
\* present but no number with cost 0.0.
C3_BadCostDefaults ==
    [][\A f \in Files :
          (/\ f.syntax_ok
           /\ \A i \in 1..Len(f.items) : f.items[i].map
           /\ JsonUpload(f, TRUE)) =>
              /\ Len(Appended) = Len(f.items)
              /\ \A i \in 1..Len(f.items) :
                     (f.items[i].cost.t # "absent" /\ ~Float(f.items[i].cost).ok)
                         => Appended[i].cost = 0
      ]_vars

\* C4: every record of the collection has a cost of at least 0.
C4_CostNonNegative ==
    \A i \in 1..Len(call_records) : call_records[i].cost >= 0

\* C5: no two records of the collection share a call_id.
C5_UniqueCallIds ==
    \A i, j \in 1..Len(call_records) :
        i # j => call_records[i].call_id # call_records[j].call_id

\* C6: the id generated for the record at position i (from 0) of an import
\* batch is "JSON" and i + 1 in four digits, whatever the collection holds.
C6_BatchLocalIds ==
    [][\A f \in Files :
          (f.syntax_ok /\ JsonUpload(f, TRUE)) =>
              \A i \in 1..Len(Appended) :
                  ~f.items[i].call_id.has => Appended[i].call_id = "JSON" \o Pad4(i)
      ]_vars

\* What C7 expects of a row: the number in cost, else the number in
\* call_cost, and 0.0 without either column or for a value that is no number.
ExpectedSheetCost(row) ==
    LET cell == RowGet(row, "cost", RowGet(row, "call_cost", CostNone))
    IN  IF Float(cell).ok THEN Float(cell).v ELSE 0

\* C7: the conversion of a sheet never fails on the cost field and gives
\* every row the cost above.
C7_SheetCostTolerant ==
    (op = "load_sheets" /\ sheets_cache.value.ok) =>
        LET rows == sheets_cache.value.rows
            base == Len(call_records) - Len(rows)
        IN  /\ "Uncaught exception" \notin messages
            /\ base >= 0
            /\ \A i \in 1..Len(rows) :
                   call_records[base + i].cost = ExpectedSheetCost(rows[i])

\* What the import loop makes of the collection's own canonical export, on
\* top of the collection: the result of the loop and the records it added.
ReImport(stamps) ==
    LET res == ImportLoop(call_records, RecordsToAdd(Export(call_records)).items,
                          stamps, 0)
    IN  [raised |-> res.raised,
         kept |-> IsPrefix(call_records, res.records),
         new |-> SubSeq(res.records, Len(call_records) + 1, Len(res.records))]

\* C8 as stated: exported and imported again, the collection comes back with
\* the same length and order and every field but added_at equal.
C8_RoundTripAllFields ==
    \A stamps \in Stamps(Len(call_records), now) :
        LET again == ReImport(stamps) IN
        /\ ~again.raised /\ again.kept
        /\ Len(again.new) = Len(call_records)
        /\ \A i \in 1..Len(call_records) :
               SameExcept(again.new[i], call_records[i], {"added_at"})

\* C8 as amended: exported and imported again, the collection comes back with
\* the same length and order and every field but added_at and source equal;
\* source is json_upload.
C8_RoundTrip ==
    \A stamps \in Stamps(Len(call_records), now) :
        LET again == ReImport(stamps) IN
        /\ ~again.raised /\ again.kept
        /\ Len(again.new) = Len(call_records)
        /\ \A i \in 1..Len(call_records) :
               /\ SameExcept(again.new[i], call_records[i], {"added_at", "source"})
               /\ again.new[i].source = "json_upload"

\* A manual record and a sheet record re-imported behind themselves, at a
\* later reading of the clock.
C8_Witness ==
    /\ op = "import_json"
    /\ imported_count = 2
    /\ Len(call_records) = 4
    /\ call_records[1].source = "manual"
    /\ call_records[2].source = "google_sheets"
    /\ call_records[1].call_id # call_records[2].call_id
    /\ \A i \in 1..2 :
           /\ SameExcept(call_records[i + 2], call_records[i], {"added_at", "source"})
           /\ call_records[i + 2].added_at > call_records[i].added_at

\* C9: a step empties the collection by Clear All or leaves the previous
\* collection as a prefix of the new one.
C9_AppendOrClear ==
    [][\/ IsPrefix(call_records, call_records')
       \/ call_records' = <<>> /\ op' = "clear_all"]_vars

\* Records appended by an import behind records that were there.
C9_Witness ==
    /\ op = "import_json"
    /\ imported_count = 1
    /\ Len(call_records) = 2
    /\ call_records[1].source = "manual"

\* C10: an import that reports an error leaves the collection unchanged.
C10_AllOrNothing ==
    [][(op' = "import_json" /\ ErrorReported') => call_records' = call_records]_vars

====
